---------------------------- MODULE Spec2Model ----------------------------
(***************************************************************************)
(* A model of valve/rcon.py: the RCON message codec (RCONMessage), the     *)
(* response reassembly buffer (_ResponseBuffer) and the connection state   *)
(* machine (RCON), together with the peer and the byte stream it reads.    *)
(*                                                                         *)
(* Bytes are the integers 0..255 and a bytestring is a sequence of them.   *)
(* Three specifications share the module:                                  *)
(*   Spec       the connection, its transport and an in-order server;      *)
(*   SpecBuf    a _ResponseBuffer driven directly by feed/pop/discard;     *)
(*   SpecCodec  RCONMessage.encode followed by RCONMessage.decode.         *)
(***************************************************************************)
EXTENDS Integers, Sequences, FiniteSets, TLC

VARIABLES
    rcon,           \* the RCON object: _socket, _closed, _authenticated, _responses
    pc,             \* where the caller is: "idle", or inside a _receive loop
    last,           \* the most recent call of the caller and how it ended
    transport,      \* the condition of the TCP stream
    inbound,        \* bytes the peer has sent that recv has not returned yet
    outbound,       \* the requests sendall has handed to the peer, in order
    answered,       \* how many of them the peer has answered
    buf,            \* SpecBuf: the _ResponseBuffer
    stream,         \* SpecBuf: bytes put on the stream and not fed yet
    fed,            \* SpecBuf: the frames put on the stream so far
    calls,          \* SpecBuf: the first calls made on the buffer
    popped,         \* SpecQueue: the responses pop has returned, in order
    discards,       \* SpecQueue: how many times discard has been called
    dropped,        \* SpecQueue: how many completed responses were dropped
    codec,          \* SpecCodec: the message under test and the codec's results
    msg             \* SpecMessage: a call into the field framework, its result

vars == <<rcon, pc, last, transport, inbound, outbound, answered,
          buf, stream, fed, calls, popped, discards, dropped,
          codec, msg>>

connVars == <<rcon, pc, last, transport, inbound, outbound, answered>>
bufVars == <<buf, stream, fed, calls, popped, discards, dropped>>
queueVars == <<popped, discards, dropped>>

Min(a, b) == IF a < b THEN a ELSE b
Max(a, b) == IF a > b THEN a ELSE b

(***************************************************************************)
(* Python's bytes slicing, s[:n] and s[n:], negative n counting from the   *)
(* end.                                                                    *)
(***************************************************************************)
SliceTo(s, n) ==
    IF n >= 0 THEN SubSeq(s, 1, Min(n, Len(s)))
    ELSE SubSeq(s, 1, Max(Len(s) + n, 0))

SliceFrom(s, n) ==
    IF n >= 0 THEN SubSeq(s, Min(n, Len(s)) + 1, Len(s))
    ELSE SubSeq(s, Max(Len(s) + n, 0) + 1, Len(s))

(***************************************************************************)
(* struct.pack("<i", n) and struct.unpack("<i", b): a little-endian,       *)
(* two's complement 32-bit integer.  A negative n is packed as the         *)
(* complement of -(n+1), which keeps every intermediate value in int32.    *)
(***************************************************************************)
Int32Min == -2147483647 - 1
Int32Max == 2147483647

PackNat(m) ==
    <<m % 256, (m \div 256) % 256, (m \div 65536) % 256, (m \div 16777216) % 256>>

pack_i(n) ==
    IF n >= 0 THEN PackNat(n)
    ELSE LET c == PackNat(-(n + 1))
         IN  <<255 - c[1], 255 - c[2], 255 - c[3], 255 - c[4]>>

unpack_i(b) ==
    IF b[4] < 128
    THEN b[1] + 256 * b[2] + 65536 * b[3] + 16777216 * b[4]
    ELSE -((255 - b[1]) + 256 * (255 - b[2]) + 65536 * (255 - b[3])
            + 16777216 * (255 - b[4])) - 1

(***************************************************************************)
(* RCONMessage                                                             *)
(***************************************************************************)
RESPONSE_VALUE == 0
AUTH_RESPONSE == 2
EXECCOMMAND == 2
AUTH == 3
Type == {RESPONSE_VALUE, AUTH_RESPONSE, EXECCOMMAND, AUTH}

RCONMessage(id_, type_, body) == [id |-> id_, type |-> type_, body |-> body]

\* The place of a message where there is none.
NoMessage == [id |-> 0, type |-> -1, body |-> <<>>]

\* encode with one terminating null byte instead of two.
encode_one_null(self) ==
    LET terminated_body == self.body \o <<0>>
        size == 8 + Len(terminated_body)
    IN  pack_i(size) \o pack_i(self.id) \o pack_i(self.type) \o terminated_body

encode(self) ==
    LET terminated_body == self.body \o <<0, 0>>
        size == 8 + Len(terminated_body)
    IN  pack_i(size) \o pack_i(self.id) \o pack_i(self.type) \o terminated_body

DecodeError(exc) == [status |-> exc, message |-> NoMessage, remainder |-> <<>>]

decode(buffer_) ==
    IF Len(buffer_) < 4 THEN DecodeError("RCONMessageError")
    ELSE
    LET size_field == SliceTo(buffer_, 4)
        raw_message == SliceFrom(buffer_, 4)
        size == unpack_i(size_field)
    IN  IF Len(raw_message) < size THEN DecodeError("RCONMessageError")
        ELSE
        LET message == SliceTo(raw_message, size)
            remainder == SliceFrom(raw_message, size)
            fixed_fields == SliceTo(message, 8)
            body_and_terminators == SliceFrom(message, 8)
        IN  IF Len(fixed_fields) # 8 THEN DecodeError("struct.error")
            ELSE
            LET id_ == unpack_i(SubSeq(fixed_fields, 1, 4))
                type_ == unpack_i(SubSeq(fixed_fields, 5, 8))
                body == SliceTo(body_and_terminators, -2)
            IN  IF type_ \notin Type THEN DecodeError("ValueError")
                ELSE [status |-> "ok",
                      message |-> RCONMessage(id_, type_, body),
                      remainder |-> remainder]

(***************************************************************************)
(* _ResponseBuffer                                                         *)
(***************************************************************************)
\* __init__: the buffer as constructed.
ResponseBuffer ==
    [buffer |-> <<>>, responses |-> <<>>, partial_responses |-> <<>>,
     discard_count |-> 0]

\* pop returning the oldest response and leaving it in the queue.
pop_kept(self) ==
    IF self.responses = <<>>
    THEN [exc |-> "RCONError", message |-> NoMessage, self |-> self]
    ELSE [exc |-> "none", message |-> Head(self.responses), self |-> self]

\* pop taking the newest response instead of the oldest.
pop_newest(self) ==
    IF self.responses = <<>>
    THEN [exc |-> "RCONError", message |-> NoMessage, self |-> self]
    ELSE [exc |-> "none", message |-> self.responses[Len(self.responses)],
          self |-> [self EXCEPT !.responses = SliceTo(@, -1)]]

\* pop: [exc, message, self]; exc is "RCONError" when there is no response.
pop(self) ==
    IF self.responses = <<>>
    THEN [exc |-> "RCONError", message |-> NoMessage, self |-> self]
    ELSE [exc |-> "none", message |-> Head(self.responses),
          self |-> [self EXCEPT !.responses = Tail(@)]]

clear(self) ==
    [self EXCEPT !.buffer = <<>>, !.responses = <<>>,
                 !.partial_responses = <<>>, !.discard_count = 0]

\* enqueue_or_discard dropping the message without counting it.
enqueue_or_discard_uncounted(self, message) ==
    IF self.discard_count = 0
    THEN [self EXCEPT !.responses = Append(@, message)]
    ELSE self

enqueue_or_discard(self, message) ==
    IF self.discard_count = 0
    THEN [self EXCEPT !.responses = Append(@, message)]
    ELSE [self EXCEPT !.discard_count = @ - 1]

\* b"".join(part.body for part in parts)
RECURSIVE join(_)
join(parts) ==
    IF parts = <<>> THEN <<>> ELSE Head(parts).body \o join(Tail(parts))

\* The body of the second frame of the pair that ends a multi-part response.
Terminator == <<0, 1, 0, 0>>

\* consume_message dropping the pending parts when a frame of another type
\* arrives among them.
consume_message_run_dropped(self, message) ==
    IF message.type = RESPONSE_VALUE
    THEN LET parts == Append(self.partial_responses, message)
             n == Len(parts)
         IN  IF n >= 2 /\ parts[n - 1].body = <<>> /\ parts[n].body = Terminator
             THEN [enqueue_or_discard(self,
                        RCONMessage(parts[1].id, RESPONSE_VALUE,
                                    join(SliceTo(parts, -2))))
                     EXCEPT !.partial_responses = <<>>]
             ELSE [self EXCEPT !.partial_responses = parts]
    ELSE [enqueue_or_discard(self, message) EXCEPT !.partial_responses = <<>>]

\* consume_message ending a run at the body 00 01 00 00 whatever precedes it.
consume_message_terminator_only(self, message) ==
    IF message.type = RESPONSE_VALUE
    THEN LET parts == Append(self.partial_responses, message)
             n == Len(parts)
         IN  IF n >= 2 /\ parts[n].body = Terminator
             THEN [enqueue_or_discard(self,
                        RCONMessage(parts[1].id, RESPONSE_VALUE,
                                    join(SliceTo(parts, -2))))
                     EXCEPT !.partial_responses = <<>>]
             ELSE [self EXCEPT !.partial_responses = parts]
    ELSE enqueue_or_discard(self, message)

\* consume_message giving the merged response the id of its last part.
consume_message_last_id(self, message) ==
    IF message.type = RESPONSE_VALUE
    THEN LET parts == Append(self.partial_responses, message)
             n == Len(parts)
         IN  IF n >= 2 /\ parts[n - 1].body = <<>> /\ parts[n].body = Terminator
             THEN [enqueue_or_discard(self,
                        RCONMessage(parts[n].id, RESPONSE_VALUE,
                                    join(SliceTo(parts, -2))))
                     EXCEPT !.partial_responses = <<>>]
             ELSE [self EXCEPT !.partial_responses = parts]
    ELSE enqueue_or_discard(self, message)

\* One pass of the loop of _consume over a decoded message.
consume_message(self, message) ==
    IF message.type = RESPONSE_VALUE
    THEN LET parts == Append(self.partial_responses, message)
             n == Len(parts)
         IN  IF n >= 2 /\ parts[n - 1].body = <<>> /\ parts[n].body = Terminator
             THEN [enqueue_or_discard(self,
                        RCONMessage(parts[1].id, RESPONSE_VALUE,
                                    join(SliceTo(parts, -2))))
                     EXCEPT !.partial_responses = <<>>]
             ELSE [self EXCEPT !.partial_responses = parts]
    ELSE enqueue_or_discard(self, message)

\* _consume: [exc, self]; exc is "none", or the exception decode let through
\* (anything but RCONMessageError), raised with the bytes still in the buffer.
RECURSIVE consume(_)
consume(self) ==
    IF self.buffer = <<>> THEN [exc |-> "none", self |-> self]
    ELSE LET d == decode(self.buffer)
         IN  CASE d.status = "RCONMessageError" -> [exc |-> "none", self |-> self]
               [] d.status = "ok" ->
                    consume(consume_message(
                        [self EXCEPT !.buffer = d.remainder], d.message))
               [] OTHER -> [exc |-> d.status, self |-> self]

\* feed replacing the backlog by the new bytes.
feed_backlog_replaced(self, bytes_) == consume([self EXCEPT !.buffer = bytes_])

feed(self, bytes_) == consume([self EXCEPT !.buffer = @ \o bytes_])

\* discard dropping the ready response and arming the counter as well.
discard_counted_drop(self) ==
    IF self.responses # <<>>
    THEN [self EXCEPT !.responses = Tail(@), !.discard_count = @ + 1]
    ELSE [self EXCEPT !.discard_count = @ + 1]

\* discard arming the counter whether or not a response is ready.
discard_always_armed(self) ==
    [self EXCEPT !.discard_count = @ + 1]

discard(self) ==
    IF self.responses # <<>>
    THEN [self EXCEPT !.responses = Tail(@)]
    ELSE [self EXCEPT !.discard_count = @ + 1]

(***************************************************************************)
(* SpecCodec: a message is chosen, encoded, and the encoding decoded.      *)
(***************************************************************************)
CodecIds == {Int32Min, -256, -1, 0, 1, 255, 256, Int32Max}
CodecBodies == {<<>>, <<0>>, <<65>>, <<0, 1, 0, 0>>, <<65, 0, 255>>}
CodecMessages ==
    {RCONMessage(i, t, b) : i \in CodecIds, t \in Type, b \in CodecBodies}

CodecIdle ==
    [pc |-> "idle", message |-> NoMessage, bytes |-> <<>>,
     result |-> DecodeError("none")]

CodecEncode ==
    /\ codec.pc = "start"
    /\ codec' = [codec EXCEPT !.pc = "encoded", !.bytes = encode(codec.message)]
    /\ UNCHANGED <<connVars, bufVars, msg>>

CodecDecode ==
    /\ codec.pc = "encoded"
    /\ codec' = [codec EXCEPT !.pc = "decoded", !.result = decode(codec.bytes)]
    /\ UNCHANGED <<connVars, bufVars, msg>>

(***************************************************************************)
(* SpecBuf: one _ResponseBuffer.  Whole frames are put on a byte stream;   *)
(* feed is called with what a read of the stream returns, which need not   *)
(* end at a frame boundary; pop, discard and clear are called at any time. *)
(***************************************************************************)
MaxFrames == 4      \* frames put on the stream
MaxDiscards == 1    \* discards armed at a time
ShortRead == 9      \* the length of a read that returns less than is there
RecvSize == 4096    \* the most one recv returns

BufFrames ==
    {RCONMessage(1, RESPONSE_VALUE, <<>>),
     RCONMessage(1, RESPONSE_VALUE, Terminator),
     RCONMessage(2, RESPONSE_VALUE, <<65>>),
     RCONMessage(3, AUTH_RESPONSE, <<66>>)}

\* The lengths recv may return when n bytes are there: all of them, or a
\* short read that ends inside a frame.
RecvSizes(n) == {k \in {ShortRead, n} : k <= n /\ k <= RecvSize}

\* The calls made on the buffer so far, a run of feeds counted once; once
\* there are more than two of them, only that there were.
Called(name) ==
    IF calls # <<>> /\ calls[Len(calls)] \in {name, "more"} /\ name = "feed"
      THEN calls
    ELSE IF calls = <<"more">> \/ Len(calls) = 2 THEN <<"more">>
    ELSE Append(calls, name)

BufSend(frame) ==
    /\ Len(fed) < MaxFrames
    /\ fed' = Append(fed, frame)
    /\ stream' = stream \o encode(frame)
    /\ UNCHANGED <<connVars, buf, calls, queueVars, codec, msg>>

BufFeed(k) ==
    /\ buf' = feed(buf, SliceTo(stream, k)).self
    /\ stream' = SliceFrom(stream, k)
    /\ calls' = Called("feed")
    /\ UNCHANGED <<connVars, fed, queueVars, codec, msg>>

BufPop ==
    /\ buf' = pop(buf).self
    /\ calls' = Called("pop")
    /\ UNCHANGED <<connVars, stream, fed, queueVars, codec, msg>>

BufDiscard ==
    /\ buf.discard_count < MaxDiscards
    /\ buf' = discard(buf)
    /\ calls' = Called("discard")
    /\ UNCHANGED <<connVars, stream, fed, queueVars, codec, msg>>

BufClear ==
    /\ buf' = clear(buf)
    /\ calls' = Called("clear")
    /\ UNCHANGED <<connVars, stream, fed, queueVars, codec, msg>>

(***************************************************************************)
(* RCON                                                                    *)
(***************************************************************************)
MaxAuth == 1        \* AUTH requests sent
MaxCmds == 2        \* commands sent by execute

\* __init__: the connection as constructed.
RCON ==
    [socket |-> "None", closed |-> FALSE, authenticated |-> FALSE,
     responses |-> ResponseBuffer]

connected(self) == self.socket # "None"

\* close marking the connection closed and keeping the socket.
close_socket_kept(self) ==
    IF connected(self)
    THEN [self EXCEPT !.closed = TRUE]
    ELSE self

\* close releasing the socket without marking the connection closed.
close_unmarked(self) ==
    IF connected(self)
    THEN [self EXCEPT !.socket = "None"]
    ELSE self

close(self) ==
    IF connected(self)
    THEN [self EXCEPT !.closed = TRUE, !.socket = "None"]
    ELSE self

\* _ensure(state, value): whether the wrapped method is let through.
ensure(self, state, value) ==
    (CASE state = "connected" -> connected(self)
       [] state = "closed" -> self.closed
       [] state = "authenticated" -> self.authenticated) = value

\* connect without its closed decorator.
connect_ensured_not_connected(self) == ensure(self, "connected", FALSE)

\* execute without its authenticated decorator.
execute_ensured_connected(self) == ensure(self, "connected", TRUE)

\* The decorators of connect, authenticate and execute.
connect_ensured(self) ==
    ensure(self, "connected", FALSE) /\ ensure(self, "closed", FALSE)
authenticate_ensured(self) ==
    ensure(self, "connected", TRUE) /\ ensure(self, "closed", FALSE)
execute_ensured(self) ==
    ensure(self, "connected", TRUE) /\ ensure(self, "authenticated", TRUE)

\* socket.sendall: what it may do in each condition of the stream.
SendOutcomes(t) ==
    CASE t = "up" -> {"sent"}
      [] t = "eof" -> {"sent", "socket.error"}
      [] OTHER -> {"socket.error"}

\* _request sending its message under the id 1.
request_id_one(out, type_, body) ==
    Append(out, decode(encode(RCONMessage(1, type_, body))).message)

\* _request: the peer receives the encoded message and decodes it.
request(out, type_, body) ==
    Append(out, decode(encode(RCONMessage(0, type_, body))).message)

\* select.select([self._socket], [], [], 0): data, end of stream or an error.
readable(t, inb) == inb # <<>> \/ t \in {"eof", "reset"}

\* _read raising RCONCommunicationError without closing the connection.
read_left_open(self, t, inb, k) ==
    IF ~readable(t, inb)
    THEN [exc |-> "none", self |-> self, inbound |-> inb]
    ELSE IF t = "reset" \/ inb = <<>>
    THEN [exc |-> "RCONCommunicationError", self |-> self, inbound |-> inb]
    ELSE LET f == feed(self.responses, SliceTo(inb, k))
         IN  [exc |-> f.exc, self |-> [self EXCEPT !.responses = f.self],
              inbound |-> SliceFrom(inb, k)]

\* _read closing the connection on a recv error but not on an empty read.
read_eof_left_open(self, t, inb, k) ==
    IF ~readable(t, inb)
    THEN [exc |-> "none", self |-> self, inbound |-> inb]
    ELSE IF t = "reset"
    THEN [exc |-> "RCONCommunicationError", self |-> close(self), inbound |-> inb]
    ELSE IF inb = <<>>
    THEN [exc |-> "RCONCommunicationError", self |-> self, inbound |-> inb]
    ELSE LET f == feed(self.responses, SliceTo(inb, k))
         IN  [exc |-> f.exc, self |-> [self EXCEPT !.responses = f.self],
              inbound |-> SliceFrom(inb, k)]

\* _read, recv returning k bytes: [exc, self, inbound].
read(self, t, inb, k) ==
    IF ~readable(t, inb)
    THEN [exc |-> "none", self |-> self, inbound |-> inb]
    ELSE IF t = "reset" \/ inb = <<>>
    THEN [exc |-> "RCONCommunicationError", self |-> close(self), inbound |-> inb]
    ELSE LET f == feed(self.responses, SliceTo(inb, k))
         IN  [exc |-> f.exc, self |-> [self EXCEPT !.responses = f.self],
              inbound |-> SliceFrom(inb, k)]

\* One pass of the loop of _receive: [exc, done, message, self, inbound].
receive(self, t, inb, k) ==
    LET r == read(self, t, inb, k)
        p == pop(r.self.responses)
    IN  IF r.exc # "none"
        THEN [exc |-> r.exc, done |-> TRUE, message |-> NoMessage,
              self |-> r.self, inbound |-> r.inbound]
        ELSE IF p.exc = "none"
        THEN [exc |-> "none", done |-> TRUE, message |-> p.message,
              self |-> [r.self EXCEPT !.responses = p.self],
              inbound |-> r.inbound]
        ELSE [exc |-> "none", done |-> FALSE, message |-> NoMessage,
              self |-> r.self, inbound |-> r.inbound]

\* authenticate setting _authenticated before it looks at the response id.
authenticate_response_early(self, response) ==
    LET cleared == [self EXCEPT !.responses = clear(@), !.authenticated = TRUE]
    IN  IF response.id = -1
        THEN [exc |-> "RCONAuthenticationError", self |-> close(cleared)]
        ELSE [exc |-> "none", self |-> cleared]

\* authenticate not clearing the buffer.
authenticate_response_uncleared(self, response) ==
    IF response.id = -1
    THEN [exc |-> "RCONAuthenticationError", self |-> close(self)]
    ELSE [exc |-> "none", self |-> [self EXCEPT !.authenticated = TRUE]]

\* The end of authenticate once _receive has returned a response.
authenticate_response(self, response) ==
    LET cleared == [self EXCEPT !.responses = clear(@)]
    IN  IF response.id = -1
        THEN [exc |-> "RCONAuthenticationError", self |-> close(cleared)]
        ELSE [exc |-> "none", self |-> [cleared EXCEPT !.authenticated = TRUE]]

\* The handlers of RCONTimeoutError exchanged or left out.
authenticate_timed_out_open(self) == self
execute_timed_out_undiscarded(self) == self
execute_timed_out_closed(self) == close([self EXCEPT !.responses = discard(@)])

\* The handler of RCONTimeoutError in authenticate and in execute.
authenticate_timed_out(self) ==
    close(self)
execute_timed_out(self) ==
    [self EXCEPT !.responses = discard(@)]

\* execute, block=False, reading without arming the discard.
execute_no_block_unarmed(self, t, inb, k) ==
    read(self, t, inb, k)

\* execute, block=False, after the requests: discard, then one _read.
execute_no_block(self, t, inb, k) ==
    read([self EXCEPT !.responses = discard(@)], t, inb, k)

(***************************************************************************)
(* The caller.  `last` records the call being made or last made: its name  *)
(* and arguments, the connection as the call found it, how the wait inside *)
(* it ended, the response it received and how it returned.                 *)
(***************************************************************************)
Password == <<112>>
Command(n) == <<96 + n>>

Count(out, type_) == Cardinality({i \in DOMAIN out : out[i].type = type_})

Call(name) ==
    [name |-> name, result |-> "running", banned |-> FALSE,
     response |-> NoMessage, wait |-> "none", command |-> <<>>,
     block |-> FALSE, entry |-> rcon, dropped |-> 0]

Raised(call, exc) == [call EXCEPT !.result = exc]
Returned(call) == [call EXCEPT !.result = "return"]

\* socket.close() releases the stream and what was unread in it.
TransportAfter(self) == IF connected(rcon) /\ ~connected(self) THEN "closed" ELSE transport
InboundAfter(self, inb) == IF connected(rcon) /\ ~connected(self) THEN <<>> ELSE inb

connect(ok) ==
    /\ pc = "idle"
    /\ IF ~connect_ensured(rcon)
       THEN /\ last' = Raised(Call("connect"), "RCONError")
            /\ UNCHANGED <<rcon, transport>>
       ELSE /\ rcon' = [rcon EXCEPT !.socket = "socket"]
            /\ transport' = IF ok THEN "up" ELSE "refused"
            /\ last' = IF ok THEN Returned(Call("connect"))
                       ELSE Raised(Call("connect"), "socket.error")
    /\ UNCHANGED <<pc, inbound, outbound, answered, bufVars, codec, msg>>

authenticate(sent) ==
    /\ pc = "idle"
    /\ IF ~authenticate_ensured(rcon)
       THEN /\ last' = Raised(Call("authenticate"), "RCONError")
            /\ UNCHANGED <<pc, outbound>>
       ELSE IF sent = "socket.error"
       THEN /\ last' = Raised(Call("authenticate"), "socket.error")
            /\ UNCHANGED <<pc, outbound>>
       ELSE /\ Count(outbound, AUTH) < MaxAuth
            /\ outbound' = request(outbound, AUTH, Password)
            /\ pc' = "authenticate"
            /\ last' = Call("authenticate")
    /\ UNCHANGED <<rcon, transport, inbound, answered, bufVars, codec, msg>>

authenticate_receive(k) ==
    /\ pc = "authenticate"
    /\ \E r \in {receive(rcon, transport, inbound, k)} :
       \E a \in {authenticate_response(r.self, r.message)} :
       \E self \in {IF r.done /\ r.exc = "none" THEN a.self ELSE r.self} :
       \E call \in {[last EXCEPT
                       !.dropped = @ + rcon.responses.discard_count
                                     - r.self.responses.discard_count]} :
           /\ rcon' = self
           /\ transport' = TransportAfter(self)
           /\ inbound' = InboundAfter(self, r.inbound)
           /\ pc' = IF r.done THEN "idle" ELSE pc
           /\ last' =
                IF ~r.done THEN call
                ELSE IF r.exc = "RCONCommunicationError"
                THEN [Raised(call, "RCONAuthenticationError")
                        EXCEPT !.wait = r.exc, !.banned = TRUE]
                ELSE IF r.exc # "none"
                THEN [Raised(call, r.exc) EXCEPT !.wait = r.exc]
                ELSE IF a.exc # "none"
                THEN [Raised(call, a.exc)
                        EXCEPT !.wait = "response", !.response = r.message]
                ELSE [Returned(call)
                        EXCEPT !.wait = "response", !.response = r.message]
    /\ UNCHANGED <<outbound, answered, bufVars, codec, msg>>

authenticate_timeout ==
    /\ pc = "authenticate"
    /\ \E self \in {authenticate_timed_out(rcon)} :
           /\ rcon' = self
           /\ transport' = TransportAfter(self)
           /\ inbound' = InboundAfter(self, inbound)
    /\ pc' = "idle"
    /\ last' = [Raised(last, "RCONTimeoutError") EXCEPT !.wait = "RCONTimeoutError"]
    /\ UNCHANGED <<outbound, answered, bufVars, codec, msg>>

execute(block, sent1, sent2, k) ==
    /\ pc = "idle"
    /\ \E command \in {Command(Count(outbound, EXECCOMMAND) + 1)} :
       \E call \in {[Call("execute") EXCEPT !.command = command, !.block = block]} :
       \E out1 \in {request(outbound, EXECCOMMAND, command)} :
       \E out2 \in {request(out1, RESPONSE_VALUE, <<>>)} :
           IF ~execute_ensured(rcon)
           THEN /\ last' = Raised(call, "RCONError")
                /\ UNCHANGED <<rcon, pc, transport, inbound, outbound>>
           ELSE IF sent1 = "socket.error"
           THEN /\ last' = Raised(call, "socket.error")
                /\ UNCHANGED <<rcon, pc, transport, inbound, outbound>>
           ELSE /\ Count(outbound, EXECCOMMAND) < MaxCmds
                /\ IF sent2 = "socket.error"
                   THEN /\ outbound' = out1
                        /\ last' = Raised(call, "socket.error")
                        /\ UNCHANGED <<rcon, pc, transport, inbound>>
                   ELSE IF block
                   THEN /\ outbound' = out2
                        /\ pc' = "execute"
                        /\ last' = call
                        /\ UNCHANGED <<rcon, transport, inbound>>
                   ELSE \E r \in {execute_no_block(rcon, transport, inbound, k)} :
                        /\ outbound' = out2
                        /\ rcon' = r.self
                        /\ transport' = TransportAfter(r.self)
                        /\ inbound' = InboundAfter(r.self, r.inbound)
                        /\ last' = IF r.exc = "none" THEN Returned(call)
                                   ELSE [Raised(call, r.exc) EXCEPT !.wait = r.exc]
                        /\ UNCHANGED pc
    /\ UNCHANGED <<answered, bufVars, codec, msg>>

execute_receive(k) ==
    /\ pc = "execute"
    /\ \E r \in {receive(rcon, transport, inbound, k)} :
       \E call \in {[last EXCEPT
                       !.dropped = @ + rcon.responses.discard_count
                                     - r.self.responses.discard_count]} :
           /\ rcon' = r.self
           /\ transport' = TransportAfter(r.self)
           /\ inbound' = InboundAfter(r.self, r.inbound)
           /\ pc' = IF r.done THEN "idle" ELSE pc
           /\ last' =
                IF ~r.done THEN call
                ELSE IF r.exc # "none"
                THEN [Raised(call, r.exc) EXCEPT !.wait = r.exc]
                ELSE [Returned(call)
                        EXCEPT !.wait = "response", !.response = r.message]
    /\ UNCHANGED <<outbound, answered, bufVars, codec, msg>>

execute_timeout ==
    /\ pc = "execute"
    /\ rcon' = execute_timed_out(rcon)
    /\ pc' = "idle"
    /\ last' = [Raised(last, "RCONTimeoutError") EXCEPT !.wait = "RCONTimeoutError"]
    /\ UNCHANGED <<transport, inbound, outbound, answered, bufVars, codec, msg>>

close_call ==
    /\ pc = "idle"
    /\ \E self \in {close(rcon)} :
           /\ rcon' = self
           /\ transport' = TransportAfter(self)
           /\ inbound' = InboundAfter(self, inbound)
    /\ last' = Returned(Call("close"))
    /\ UNCHANGED <<pc, outbound, answered, bufVars, codec, msg>>

(***************************************************************************)
(* The peer: a server that answers the requests it has received, each      *)
(* once and in the order received, or closes or resets the stream.         *)
(***************************************************************************)
AuthReplyIds == {0, -1}

\* The frames a server sends in answer to one request.
Replies(req) ==
    CASE req.type = AUTH ->
           {<<RCONMessage(i, AUTH_RESPONSE, <<>>)>> : i \in AuthReplyIds}
             \cup {<<RCONMessage(0, RESPONSE_VALUE, <<>>),
                     RCONMessage(i, AUTH_RESPONSE, <<>>)>> : i \in AuthReplyIds}
      [] req.type = EXECCOMMAND ->
           {<<RCONMessage(req.id, RESPONSE_VALUE, req.body)>>,
            <<RCONMessage(req.id, RESPONSE_VALUE, req.body),
              RCONMessage(req.id, RESPONSE_VALUE, req.body)>>}
      [] OTHER ->
           {<<RCONMessage(req.id, RESPONSE_VALUE, <<>>),
              RCONMessage(req.id, RESPONSE_VALUE, Terminator)>>}

RECURSIVE encode_all(_)
encode_all(frames) ==
    IF frames = <<>> THEN <<>>
    ELSE encode(Head(frames)) \o encode_all(Tail(frames))

server_reply(frames) ==
    /\ transport = "up"
    /\ answered < Len(outbound)
    /\ frames \in Replies(outbound[answered + 1])
    /\ inbound' = inbound \o encode_all(frames)
    /\ answered' = answered + 1
    /\ UNCHANGED <<rcon, pc, last, transport, outbound, bufVars, codec, msg>>

peer_close ==
    /\ transport = "up"
    /\ transport' = "eof"
    /\ UNCHANGED <<rcon, pc, last, inbound, outbound, answered, bufVars, codec, msg>>

peer_reset ==
    /\ transport \in {"up", "eof"}
    /\ transport' = "reset"
    /\ UNCHANGED <<rcon, pc, last, inbound, outbound, answered, bufVars, codec, msg>>

(***************************************************************************)
(* The field and message framework (valve.source.messages), as section 4.4 *)
(* of the specification describes it and as its tests call it.  A value    *)
(* that may be missing is a sequence of at most one element: <<>> where    *)
(* the caller passes nothing, <<v>> where the caller passes v.             *)
(***************************************************************************)
NoValue == <<>>

\* A field: its name, the width of its format in bytes, the optional flag
\* and the stored default.
MessageField(name, width, optional, default_value) ==
    [name |-> name, width |-> width, optional |-> optional,
     default_value |-> default_value]
ByteField(name, optional, default_value) ==
    MessageField(name, 1, optional, default_value)
ShortField(name, optional, default_value) ==
    MessageField(name, 2, optional, default_value)

\* struct.pack and struct.unpack of a little-endian unsigned format.
RECURSIVE pack_field(_, _)
pack_field(width, value) ==
    IF width = 0 THEN <<>>
    ELSE <<value % 256>> \o pack_field(width - 1, value \div 256)

RECURSIVE unpack_field(_)
unpack_field(bytes_) ==
    IF bytes_ = <<>> THEN 0 ELSE Head(bytes_) + 256 * unpack_field(Tail(bytes_))

\* use_default substituting the default for a required field as well.
use_default_lenient(instance, value) ==
    IF value # NoValue
    THEN [exc |-> "none", value |-> value[1], called |-> TRUE]
    ELSE [exc |-> "none", value |-> instance.default_value, called |-> TRUE]

\* The default-substitution rule: [exc, value, called], called telling
\* whether the wrapped function is run, and value what it is run with.
use_default(instance, value) ==
    IF value # NoValue
    THEN [exc |-> "none", value |-> value[1], called |-> TRUE]
    ELSE IF instance.optional
    THEN [exc |-> "none", value |-> instance.default_value, called |-> TRUE]
    ELSE [exc |-> "ValueError", value |-> 0, called |-> FALSE]

\* MessageField.encode, wrapped in use_default: [exc, called, bytes].
field_encode(instance, value) ==
    LET u == use_default(instance, value)
    IN  [exc |-> u.exc, called |-> u.called,
         bytes |-> IF u.called THEN pack_field(instance.width, u.value)
                   ELSE <<>>]

\* MessageField.decode: [exc, value, remainder].
field_decode(instance, buffer) ==
    IF Len(buffer) < instance.width
    THEN [exc |-> "BufferExhaustedError", value |-> 0, remainder |-> buffer]
    ELSE [exc |-> "none",
          value |-> unpack_field(SliceTo(buffer, instance.width)),
          remainder |-> SliceFrom(buffer, instance.width)]

\* Message.encode putting the later fields first.
RECURSIVE message_encode_reversed(_, _, _)
message_encode_reversed(fields, stored, overrides) ==
    IF fields = <<>> THEN [exc |-> "none", bytes |-> <<>>]
    ELSE LET f == Head(fields)
             value == IF overrides[f.name] # NoValue THEN overrides[f.name]
                      ELSE stored[f.name]
             e == field_encode(f, value)
             rest == message_encode_reversed(Tail(fields), stored, overrides)
         IN  IF e.exc # "none" THEN [exc |-> e.exc, bytes |-> <<>>]
             ELSE IF rest.exc # "none" THEN rest
             ELSE [exc |-> "none", bytes |-> rest.bytes \o e.bytes]

\* Message.encode(**overrides): [exc, bytes].  Each field of the schema, in
\* declaration order, takes its value from the override or the stored state.
RECURSIVE message_encode(_, _, _)
message_encode(fields, stored, overrides) ==
    IF fields = <<>> THEN [exc |-> "none", bytes |-> <<>>]
    ELSE LET f == Head(fields)
             value == IF overrides[f.name] # NoValue THEN overrides[f.name]
                      ELSE stored[f.name]
             e == field_encode(f, value)
             rest == message_encode(Tail(fields), stored, overrides)
         IN  IF e.exc # "none" THEN [exc |-> e.exc, bytes |-> <<>>]
             ELSE IF rest.exc # "none" THEN rest
             ELSE [exc |-> "none", bytes |-> e.bytes \o rest.bytes]

\* The count policies of MessageArrayField: how many elements to decode at
\* most (Unbounded: until the buffer is exhausted) and how many at least.
Unbounded == -1
constant(n, minimum) == [count |-> n, minimum |-> minimum]
all == [count |-> Unbounded, minimum |-> 0]
at_least(n) == [count |-> Unbounded, minimum |-> n]

MessageArrayField(element, count) == [element |-> element, count |-> count]

ArrayError(exc) == [exc |-> exc, values |-> <<>>, remainder |-> <<>>]

\* MessageArrayField.decode without the check of the minimum.
RECURSIVE array_decode_no_minimum(_, _, _)
array_decode_no_minimum(array, buffer, entries) ==
    IF array.count.count # Unbounded /\ Len(entries) >= array.count.count
    THEN [exc |-> "none", values |-> entries, remainder |-> buffer]
    ELSE LET e == field_decode(array.element, buffer)
         IN  IF e.exc # "none"
             THEN [exc |-> "none", values |-> entries, remainder |-> buffer]
             ELSE array_decode_no_minimum(array, e.remainder,
                                          Append(entries, e.value))

\* MessageArrayField.decode going on past the count.
RECURSIVE array_decode_past_count(_, _, _)
array_decode_past_count(array, buffer, entries) ==
    LET e == field_decode(array.element, buffer)
    IN  IF e.exc # "none"
        THEN IF Len(entries) < array.count.minimum
             THEN ArrayError("BrokenMessageError")
             ELSE [exc |-> "none", values |-> entries, remainder |-> buffer]
        ELSE array_decode_past_count(array, e.remainder,
                                     Append(entries, e.value))

\* MessageArrayField.decode: [exc, values, remainder].  Elements are decoded
\* until the count is reached or the buffer runs out; an element that the
\* buffer cannot complete is left in the remainder.
RECURSIVE array_decode(_, _, _)
array_decode(array, buffer, entries) ==
    IF array.count.count # Unbounded /\ Len(entries) >= array.count.count
    THEN [exc |-> "none", values |-> entries, remainder |-> buffer]
    ELSE LET e == field_decode(array.element, buffer)
         IN  IF e.exc # "none"
             THEN IF Len(entries) < array.count.minimum
                  THEN ArrayError("BrokenMessageError")
                  ELSE [exc |-> "none", values |-> entries, remainder |-> buffer]
             ELSE array_decode(array, e.remainder, Append(entries, e.value))

(***************************************************************************)
(* SpecMessage: one call into the framework is chosen and made.            *)
(***************************************************************************)
MaxBuffer == 11     \* bytes in the buffer an array is decoded from

MsgIdle == [pc |-> "idle", op |-> "none"]

FieldCalls ==
    {[pc |-> "start", op |-> "field_encode",
      field |-> MessageField("", w, o, d), value |-> v] :
        w \in {1, 2}, o \in BOOLEAN, d \in {5, 10},
        v \in {NoValue, <<0>>, <<5>>, <<10>>}}

MessageCalls ==
    {[pc |-> "start", op |-> "message_encode",
      fields |-> <<ByteField("first_field", o1, 5),
                   ByteField("last_field", o2, 10)>>,
      stored |-> [first_field |-> s1, last_field |-> s2],
      overrides |-> [first_field |-> v1, last_field |-> v2]] :
        o1 \in BOOLEAN, o2 \in BOOLEAN,
        s1 \in {NoValue, <<5>>}, s2 \in {NoValue, <<10>>, <<7>>},
        v1 \in {NoValue, <<6>>}, v2 \in {NoValue, <<10>>}}

ArrayCounts ==
    {constant(n, m) : n \in {3, 5}, m \in {2, 3, 5}}
        \cup {at_least(2), at_least(5), all}

ArrayCalls ==
    {[pc |-> "start", op |-> "array_decode",
      array |-> MessageArrayField(MessageField("field", w, FALSE, 0), c),
      buffer |-> [i \in 1..n |-> 17 * i]] :
        w \in {1, 2}, c \in {p \in ArrayCounts : p.minimum <= p.count
                                                  \/ p.count = Unbounded},
        n \in 0..MaxBuffer}

MsgFieldEncode ==
    /\ msg.pc = "start" /\ msg.op = "field_encode"
    /\ msg' = [pc |-> "done", op |-> msg.op, field |-> msg.field,
               value |-> msg.value,
               result |-> field_encode(msg.field, msg.value)]
    /\ UNCHANGED <<connVars, bufVars, codec>>

MsgMessageEncode ==
    /\ msg.pc = "start" /\ msg.op = "message_encode"
    /\ msg' = [pc |-> "done", op |-> msg.op, fields |-> msg.fields,
               stored |-> msg.stored, overrides |-> msg.overrides,
               result |-> message_encode(msg.fields, msg.stored, msg.overrides)]
    /\ UNCHANGED <<connVars, bufVars, codec>>

MsgArrayDecode ==
    /\ msg.pc = "start" /\ msg.op = "array_decode"
    /\ msg' = [pc |-> "done", op |-> msg.op, array |-> msg.array,
               buffer |-> msg.buffer,
               result |-> array_decode(msg.array, msg.buffer, <<>>)]
    /\ UNCHANGED <<connVars, bufVars, codec>>

(***************************************************************************)
(* The specifications                                                      *)
(***************************************************************************)
ConnIdle ==
    /\ rcon = RCON
    /\ pc = "idle"
    /\ last = Call("none")
    /\ transport = "none"
    /\ inbound = <<>>
    /\ outbound = <<>>
    /\ answered = 0

BufIdle ==
    /\ buf = ResponseBuffer
    /\ stream = <<>>
    /\ fed = <<>>
    /\ calls = <<>>
    /\ popped = <<>>
    /\ discards = 0
    /\ dropped = 0

Init == ConnIdle /\ BufIdle /\ codec = CodecIdle /\ msg = MsgIdle

Next ==
    \/ \E ok \in BOOLEAN : connect(ok)
    \/ \E sent \in SendOutcomes(transport) : authenticate(sent)
    \/ \E k \in RecvSizes(Len(inbound)) : authenticate_receive(k)
    \/ authenticate_timeout
    \/ \E block \in BOOLEAN, sent1, sent2 \in SendOutcomes(transport),
          k \in RecvSizes(Len(inbound)) : execute(block, sent1, sent2, k)
    \/ \E k \in RecvSizes(Len(inbound)) : execute_receive(k)
    \/ execute_timeout
    \/ close_call
    \/ \E frames \in UNION {Replies(req) : req \in
                              {outbound[i] : i \in DOMAIN outbound}} :
          server_reply(frames)
    \/ peer_close
    \/ peer_reset

Spec == Init /\ [][Next]_vars

InitBuf == ConnIdle /\ BufIdle /\ codec = CodecIdle /\ msg = MsgIdle

NextBuf ==
    \/ \E frame \in BufFrames : BufSend(frame)
    \/ \E k \in RecvSizes(Len(stream)) \ {0} : BufFeed(k)
    \/ BufPop
    \/ BufDiscard
    \/ BufClear

SpecBuf == InitBuf /\ [][NextBuf]_vars

InitCodec ==
    /\ ConnIdle
    /\ BufIdle
    /\ codec \in {[CodecIdle EXCEPT !.pc = "start", !.message = m] :
                    m \in CodecMessages}
    /\ msg = MsgIdle

NextCodec == CodecEncode \/ CodecDecode

SpecCodec == InitCodec /\ [][NextCodec]_vars

(***************************************************************************)
(* SpecDecode: bytes arrive that need not be the encoding of a message;    *)
(* RCONMessage.decode, or feed on a new buffer, is applied to them.        *)
(***************************************************************************)
DecodeSizes == {-1, 0, 4, 7, 8, 10, 11, Int32Max}
DecodeTypes == {-1, 0, 1, 2, 3}
DecodeLengths == {0, 3, 4, 8, 11, 12, 14, 15}

\* A size field, an id, a type and a terminated one-byte body, cut short.
DecodeBuffers ==
    {SliceTo(pack_i(size) \o pack_i(7) \o pack_i(type_) \o <<65, 0, 0>>, n) :
        size \in DecodeSizes, type_ \in DecodeTypes, n \in DecodeLengths}

CodecDecodeBytes ==
    /\ codec.pc = "received"
    /\ codec' = [codec EXCEPT !.pc = "decoded", !.result = decode(codec.bytes)]
    /\ UNCHANGED <<connVars, bufVars, msg>>

CodecFeedBytes ==
    /\ codec.pc = "received"
    /\ \E f \in {feed(ResponseBuffer, codec.bytes)} :
           codec' = [codec EXCEPT !.pc = "fed",
                                  !.result = [status |-> f.exc,
                                              message |-> NoMessage,
                                              remainder |-> f.self.buffer]]
    /\ UNCHANGED <<connVars, bufVars, msg>>

InitDecode ==
    /\ ConnIdle
    /\ BufIdle
    /\ codec \in {[CodecIdle EXCEPT !.pc = "received", !.bytes = b] :
                    b \in DecodeBuffers}
    /\ msg = MsgIdle

NextDecode == CodecDecodeBytes \/ CodecFeedBytes

SpecDecode == InitDecode /\ [][NextDecode]_vars

InitMessage ==
    /\ ConnIdle
    /\ BufIdle
    /\ codec = CodecIdle
    /\ msg \in FieldCalls \cup MessageCalls \cup ArrayCalls

NextMessage == MsgFieldEncode \/ MsgMessageEncode \/ MsgArrayDecode

SpecMessage == InitMessage /\ [][NextMessage]_vars

(***************************************************************************)
(* SpecQueue: one _ResponseBuffer driven by feed, pop and discard, with    *)
(* the history of what pop returned and of how often discard was called.   *)
(***************************************************************************)
MaxStack == 2       \* discards armed at a time

QueueSend(frame) ==
    /\ Len(fed) < MaxFrames
    /\ fed' = Append(fed, frame)
    /\ stream' = stream \o encode(frame)
    /\ UNCHANGED <<connVars, buf, calls, queueVars, codec, msg>>

\* A response is dropped where feed lowers the counter of armed discards.
QueueFeed(k) ==
    /\ \E f \in {feed(buf, SliceTo(stream, k)).self} :
           /\ buf' = f
           /\ dropped' = dropped + (buf.discard_count - f.discard_count)
    /\ stream' = SliceFrom(stream, k)
    /\ UNCHANGED <<connVars, fed, calls, popped, discards, codec, msg>>

QueuePop ==
    /\ \E p \in {pop(buf)} :
           /\ buf' = p.self
           /\ popped' = IF p.exc = "none" THEN Append(popped, p.message)
                         ELSE popped
    /\ UNCHANGED <<connVars, stream, fed, calls, discards, dropped, codec, msg>>

\* A response is dropped where discard shortens the ready queue.
QueueDiscard ==
    /\ buf.discard_count < MaxStack
    /\ \E d \in {discard(buf)} :
           /\ buf' = d
           /\ dropped' = dropped + (Len(buf.responses) - Len(d.responses))
    /\ discards' = discards + 1
    /\ UNCHANGED <<connVars, stream, fed, calls, popped, codec, msg>>

NextQueue ==
    \/ \E frame \in BufFrames : QueueSend(frame)
    \/ \E k \in RecvSizes(Len(stream)) \ {0} : QueueFeed(k)
    \/ QueuePop
    \/ QueueDiscard

SpecQueue == InitBuf /\ [][NextQueue]_vars

(***************************************************************************)
(* SpecChunk: whole frames are put on the stream and fed to a buffer on    *)
(* which discards may have been armed beforehand; a feed takes one byte, a *)
(* short read or all there is, so that it may end anywhere in a frame.     *)
(***************************************************************************)
ChunkSizes(n) == {k \in {1, ShortRead, n} : 1 <= k /\ k <= n}

NextChunk ==
    \/ \E frame \in BufFrames : QueueSend(frame)
    \/ \E k \in ChunkSizes(Len(stream)) : QueueFeed(k)
    \/ (fed = <<>> /\ QueueDiscard)

SpecChunk == InitBuf /\ [][NextChunk]_vars

(***************************************************************************)
(* Properties                                                              *)
(***************************************************************************)
Done(name) == pc = "idle" /\ last.name = name /\ last.result # "running"

\* The bodies a server may give the merged response to a command.
Answers(command) ==
    {join(frames) : frames \in Replies(RCONMessage(0, EXECCOMMAND, command))}

\* C1: with a server that answers every command once and in request order,
\* a blocking execute that returns a response returns the response to its
\* own command, whatever timed-out and non-blocking executes preceded it.
C1_OwnResponse ==
    (Done("execute") /\ last.block /\ last.result = "return")
        => last.response.body \in Answers(last.command)

\* A blocking execute returned after the late response of an earlier
\* command arrived during its wait and was dropped.
C1_Witness ==
    /\ Done("execute") /\ last.block /\ last.result = "return"
    /\ last.dropped >= 1
    /\ last.response.body \in Answers(last.command)

\* The frames are RESPONSE_VALUE frames ending in the terminating pair.
Terminated(frames) ==
    /\ Len(frames) >= 2
    /\ \A i \in DOMAIN frames : frames[i].type = RESPONSE_VALUE
    /\ frames[Len(frames) - 1].body = <<>>
    /\ frames[Len(frames)].body = <<0, 1, 0, 0>>

\* Among the frames before the terminating pair, an empty body is followed
\* at once by the body 00 01 00 00.
InnerPair(frames) ==
    \E i \in 1..(Len(frames) - 3) :
        frames[i].body = <<>> /\ frames[i + 1].body = <<0, 1, 0, 0>>

RECURSIVE Concat(_)
Concat(frames) ==
    IF frames = <<>> THEN <<>> ELSE Head(frames).body \o Concat(Tail(frames))

Merged(frames) ==
    [id |-> frames[1].id, type |-> 0,
     body |-> Concat(SubSeq(frames, 1, Len(frames) - 2))]

\* C2 as claimed: N RESPONSE_VALUE frames, an empty one and one with body
\* 00 01 00 00, fed into an empty buffer, leave exactly one response in the
\* ready queue: the N bodies concatenated, under the first frame's id, for
\* every N and every choice of the bodies.
C2_AnyBodies ==
    (calls = <<"feed">> /\ stream = <<>> /\ Terminated(fed))
        => buf.responses = <<Merged(fed)>>

\* C2 as amended: the same, for every choice of the N bodies in which no
\* empty body is followed at once by the body 00 01 00 00.
C2_Reassembly ==
    (calls = <<"feed">> /\ stream = <<>> /\ Terminated(fed) /\ ~InnerPair(fed))
        => /\ buf.responses = <<Merged(fed)>>
           /\ buf.partial_responses = <<>>
           /\ buf.buffer = <<>>

C2_Witness ==
    /\ calls = <<"feed">> /\ stream = <<>> /\ Terminated(fed) /\ ~InnerPair(fed)
    /\ Len(fed) = 4
    /\ fed[1].id # fed[4].id
    /\ buf.responses = <<Merged(fed)>>

\* C3 as claimed: a blocking execute whose wait reaches the deadline fails
\* with RCONTimeoutError, leaves the connection open, and leaves the discard
\* counter exactly one higher than it was before the call.
C3_OneHigherThanBefore ==
    (Done("execute") /\ last.block /\ last.wait = "RCONTimeoutError")
        => /\ last.result = "RCONTimeoutError"
           /\ connected(rcon) /\ ~rcon.closed
           /\ rcon.responses.discard_count
                = last.entry.responses.discard_count + 1

\* C3 as amended: ... and leaves the discard counter exactly one higher than
\* it was when the deadline was reached, that is one higher than before the
\* call less the late responses that were dropped during the wait.
C3_Timeout ==
    (Done("execute") /\ last.block /\ last.wait = "RCONTimeoutError")
        => /\ last.result = "RCONTimeoutError"
           /\ connected(rcon) /\ ~rcon.closed
           /\ rcon.responses.discard_count
                = last.entry.responses.discard_count - last.dropped + 1

C3_Witness ==
    /\ Done("execute") /\ last.block /\ last.wait = "RCONTimeoutError"
    /\ last.dropped = 1
    /\ rcon.responses.discard_count = last.entry.responses.discard_count

\* The frames make up one complete response: one frame of another type than
\* RESPONSE_VALUE, or RESPONSE_VALUE frames ending in the first terminating
\* pair among them.
OneResponse(frames) ==
    \/ Len(frames) = 1 /\ frames[1].type # 0
    \/ Terminated(frames) /\ ~InnerPair(frames)

\* C4: discard() on an empty buffer, then feed() with the bytes of one
\* complete response, leaves the ready queue empty and the discard counter
\* at zero: the response is parsed, and pop() cannot obtain it.
C4_DiscardBeforeArrival ==
    (calls = <<"discard", "feed">> /\ stream = <<>> /\ OneResponse(fed))
        => /\ buf.responses = <<>>
           /\ buf.discard_count = 0
           /\ buf.buffer = <<>> /\ buf.partial_responses = <<>>
           /\ pop(buf).exc = "RCONError"

C4_Witness ==
    /\ calls = <<"discard", "feed">> /\ stream = <<>> /\ OneResponse(fed)
    /\ Len(fed) = 3
    /\ buf.discard_count = 0

\* C5: for a message with an int32 id, a type in {0, 2, 3} and any body,
\* decode(encode(message)) is the same id, type and body, and nothing is
\* left over.
C5_RoundTrip ==
    codec.pc = "decoded"
        => /\ codec.result.status = "ok"
           /\ codec.result.message.id = codec.message.id
           /\ codec.result.message.type = codec.message.type
           /\ codec.result.message.body = codec.message.body
           /\ codec.result.remainder = <<>>

C5_Witness ==
    /\ codec.pc = "decoded"
    /\ codec.message.id = Int32Min
    /\ codec.message.body = <<65, 0, 255>>
    /\ codec.result.message = codec.message

\* C6: when authenticate receives a response whose id is -1, it fails with
\* RCONAuthenticationError, banned False, the connection is closed and no
\* longer connected, and authenticated is not set.
C6_WrongPassword ==
    (Done("authenticate") /\ last.wait = "response" /\ last.response.id = -1)
        => /\ last.result = "RCONAuthenticationError"
           /\ ~last.banned
           /\ rcon.closed /\ ~connected(rcon)
           /\ rcon.authenticated = last.entry.authenticated

C6_Witness ==
    /\ Done("authenticate") /\ last.wait = "response" /\ last.response.id = -1
    /\ rcon.closed /\ ~rcon.authenticated

\* C7: when authenticate receives a response whose id is not -1, it returns,
\* the connection is authenticated, connected and not closed, and the
\* buffer is cleared: no backlog, no response, no part, no armed discard.
C7_Authenticated ==
    (Done("authenticate") /\ last.wait = "response" /\ last.response.id # -1)
        => /\ last.result = "return"
           /\ rcon.authenticated /\ connected(rcon) /\ ~rcon.closed
           /\ rcon.responses.buffer = <<>>
           /\ rcon.responses.responses = <<>>
           /\ rcon.responses.partial_responses = <<>>
           /\ rcon.responses.discard_count = 0

C7_Witness ==
    /\ Done("authenticate") /\ last.wait = "response" /\ last.response.id # -1
    /\ last.response.type = AUTH_RESPONSE
    /\ rcon.authenticated

\* C8: when the wait inside authenticate fails with a communication error,
\* authenticate fails with RCONAuthenticationError, banned True, and the
\* connection is closed afterwards.
C8_Banned ==
    (Done("authenticate") /\ last.wait = "RCONCommunicationError")
        => /\ last.result = "RCONAuthenticationError"
           /\ last.banned
           /\ rcon.closed /\ ~connected(rcon)

C8_Witness ==
    /\ Done("authenticate") /\ last.wait = "RCONCommunicationError"
    /\ last.banned /\ rcon.closed

\* C9: when the wait inside authenticate reaches its deadline, the
\* connection is closed and RCONTimeoutError reaches the caller.
C9_AuthTimeout ==
    (Done("authenticate") /\ last.wait = "RCONTimeoutError")
        => /\ last.result = "RCONTimeoutError"
           /\ rcon.closed /\ ~connected(rcon)

C9_Witness ==
    /\ Done("authenticate") /\ last.wait = "RCONTimeoutError"
    /\ last.result = "RCONTimeoutError" /\ rcon.closed

\* C10: closed is terminal: once the connection is closed it stays closed,
\* and every later connect, authenticate or execute fails with RCONError,
\* opens no transport and sends nothing.
C10_ClosedTerminal ==
    [][rcon.closed =>
         /\ rcon'.closed /\ ~connected(rcon') /\ transport' = transport
         /\ outbound' = outbound
         /\ (last' # last /\ last'.name \in {"connect", "authenticate", "execute"})
               => last'.result = "RCONError"]_vars

C10_Witness ==
    /\ rcon.closed /\ last.entry.closed
    /\ last.name = "connect" /\ last.result = "RCONError"
    /\ ~connected(rcon) /\ transport = "closed"

\* C11 as claimed: from each of Disconnected, Connected and Authenticated,
\* calling close() leaves the connection closed.
C11_CloseFromAnyState ==
    [][close_call => rcon'.closed]_vars

\* C11 as amended: called while connected reports true (Connected or
\* Authenticated), close() leaves the connection closed and not connected;
\* called while Disconnected it changes nothing, and closed stays false.
C11_CloseWhenConnected ==
    [][close_call =>
         IF connected(rcon) THEN rcon'.closed /\ ~connected(rcon')
         ELSE rcon' = rcon]_vars

C11_Witness ==
    /\ Done("close") /\ last.result = "return"
    /\ connected(last.entry) /\ last.entry.authenticated /\ ~last.entry.closed
    /\ rcon.closed /\ ~connected(rcon)

\* The step is the caller calling the method, or the end of the call.
CallStep(name) == pc = "idle" /\ last' # last /\ last'.name = name

\* A call that is refused: RCONError, and nothing else happens.
Refused ==
    /\ last'.result = "RCONError"
    /\ rcon' = rcon /\ pc' = pc
    /\ outbound' = outbound /\ transport' = transport /\ inbound' = inbound

\* C12: connect while connected or closed, authenticate while not connected
\* or closed, and execute while not connected or not authenticated fail with
\* RCONError and have no effect: nothing is sent, and the flags and the
\* buffer are unchanged.  No EXECCOMMAND is ever sent on a connection that
\* has not authenticated.
C12_StateGuards ==
    [][/\ (CallStep("connect") /\ (connected(rcon) \/ rcon.closed))
              => Refused
       /\ (CallStep("authenticate") /\ (~connected(rcon) \/ rcon.closed))
              => Refused
       /\ (CallStep("execute") /\ (~connected(rcon) \/ ~rcon.authenticated))
              => Refused
       /\ \A i \in DOMAIN outbound' :
              (i > Len(outbound) /\ outbound'[i].type = EXECCOMMAND)
                 => connected(rcon) /\ rcon.authenticated]_vars

\* execute was called on a connection that is connected and has not
\* authenticated, and was refused.
C12_Witness ==
    /\ Done("execute") /\ last.result = "RCONError"
    /\ connected(last.entry) /\ ~last.entry.authenticated
    /\ rcon = last.entry /\ outbound = <<>>

\* C13: whenever a read inside authenticate or execute meets an empty read
\* or a read error, the connection is closed and no longer connected when
\* the error reaches the caller: RCONCommunicationError is never surfaced
\* while the connection still reports connected.
C13_CommunicationErrorCloses ==
    (pc = "idle" /\ (last.wait = "RCONCommunicationError"
                       \/ last.result = "RCONCommunicationError"))
        => /\ rcon.closed /\ ~connected(rcon)
           /\ transport = "closed"
           /\ last.result \in {"RCONCommunicationError", "RCONAuthenticationError"}

\* A blocking execute met the end of the stream while it waited.
C13_Witness ==
    /\ Done("execute") /\ last.block
    /\ last.result = "RCONCommunicationError"
    /\ connected(last.entry) /\ rcon.closed /\ ~connected(rcon)

\* C14 as claimed: an execute that fails because the socket is closed or in
\* an erroneous state, whilst sending the EXECCOMMAND or the empty
\* RESPONSE_VALUE or whilst receiving, fails with RCONCommunicationError.
C14_SocketErrorsAreCommunicationErrors ==
    (Done("execute") /\ last.result \notin {"return", "RCONError", "RCONTimeoutError"})
        => last.result = "RCONCommunicationError"

\* C15 as claimed: connected reports true only after a connect that
\* succeeded; a connect whose socket could not be opened propagates the
\* failure and leaves the connection not connected and not closed.
C15_ConnectedOnlyAfterSuccess ==
    /\ connected(rcon) => transport \notin {"none", "refused"}
    /\ (Done("connect") /\ last.result = "socket.error")
          => ~connected(rcon) /\ ~rcon.closed

\* C16: close() called right after close() raises nothing and changes
\* nothing: the connection was no longer connected, so no socket is closed
\* a second time, and the state is the state the first call left.
C16_CloseIdempotent ==
    /\ [][(close_call /\ last.name = "close")
            => /\ ~connected(rcon)
               /\ rcon' = rcon /\ transport' = transport /\ inbound' = inbound
               /\ outbound' = outbound /\ pc' = pc
               /\ last'.result = "return"]_vars
    /\ [](close(close(rcon)) = close(rcon))

\* close() was called on a connection that close() had closed after it had
\* authenticated and before any command was sent.
C16_Witness ==
    /\ Done("close") /\ last.result = "return"
    /\ last.entry.closed /\ ~connected(last.entry) /\ last.entry.authenticated
    /\ Count(outbound, EXECCOMMAND) = 0
    /\ rcon = last.entry /\ transport = "closed"

\* The discards a buffer has armed less the responses it has ready: every
\* response that completes lowers it by one, every discard() raises it by one.
Balance(b) == b.discard_count - Len(b.responses)

\* C17: an execute with block=False that returns has sent its two requests,
\* has armed exactly one discard, has read the transport at most once (one
\* recv, or none when nothing was readable), returns no result and leaves
\* the caller outside any wait.
C17_NoBlock ==
    [][(CallStep("execute") /\ ~last'.block /\ last'.result = "return")
       => /\ pc' = "idle"
          /\ last'.response = NoMessage /\ last'.wait = "none"
          /\ Len(outbound') = Len(outbound) + 2
          /\ \E k \in RecvSizes(Len(inbound)) \cup {0} :
                /\ inbound' = SliceFrom(inbound, k)
                /\ Balance(rcon'.responses)
                     = Balance(feed(rcon.responses, SliceTo(inbound, k)).self) + 1
                /\ rcon'.responses.buffer
                     = feed(rcon.responses, SliceTo(inbound, k)).self.buffer]_vars

\* A non-blocking execute returned after its one read dropped the late
\* response to an earlier command: the counter is where it was.
C17_Witness ==
    /\ Done("execute") /\ ~last.block /\ last.result = "return"
    /\ last.entry.responses.discard_count = 1
    /\ rcon.responses.discard_count = 1

\* The bytes feed has been given so far, and the responses that completed
\* in them, in the order in which they completed.
Consumed ==
    SliceTo(encode_all(fed), Len(encode_all(fed)) - Len(stream))
Completed == feed(ResponseBuffer, Consumed).self.responses

\* s is t with elements left out.
RECURSIVE IsSubseq(_, _)
IsSubseq(s, t) ==
    IF s = <<>> THEN TRUE
    ELSE IF t = <<>> THEN FALSE
    ELSE IF Head(s) = Head(t) THEN IsSubseq(Tail(s), Tail(t))
    ELSE IsSubseq(s, Tail(t))

\* C18: over any sequence of feed, pop and discard, the responses pop has
\* returned, followed by those still ready, are a subsequence of the
\* completed responses in the order in which they completed, so none is
\* returned twice or out of order; pop takes the oldest ready response, and
\* pop on an empty ready queue fails with RCONError and changes nothing.
C18_Fifo ==
    /\ [](IsSubseq(popped \o buf.responses, Completed))
    /\ [](buf.responses = <<>>
            => pop(buf).exc = "RCONError" /\ pop(buf).self = buf)
    /\ [][(QueuePop /\ buf.responses # <<>>)
            => /\ popped' = Append(popped, Head(buf.responses))
               /\ buf'.responses = Tail(buf.responses)]_vars

\* Two different responses were popped, in the order they completed in,
\* and the ready queue is empty again.
C18_Witness ==
    /\ Len(popped) = 2 /\ popped[1] # popped[2]
    /\ popped = Completed
    /\ buf.responses = <<>>

\* C19: discard() drops the head of the ready queue and leaves the counter
\* alone when a response is ready, and otherwise adds one to the counter
\* and leaves the queue alone; it never touches the parts of a pending run
\* or the undecoded bytes; and calls stack: the responses dropped so far
\* are as many as the calls made less the discards still armed.
C19_Discard ==
    /\ [][QueueDiscard
            => /\ IF buf.responses # <<>>
                  THEN /\ buf'.responses = Tail(buf.responses)
                       /\ buf'.discard_count = buf.discard_count
                  ELSE /\ buf'.responses = buf.responses
                       /\ buf'.discard_count = buf.discard_count + 1
               /\ buf'.partial_responses = buf.partial_responses
               /\ buf'.buffer = buf.buffer]_vars
    /\ [](Len(Completed) - Len(popped) - Len(buf.responses)
            = discards - buf.discard_count)

\* discard() was called three times; one response, merged from the parts
\* of a run, has completed and was dropped whole, and two discards are
\* armed on top of each other.
C19_Witness ==
    /\ discards = 3 /\ buf.discard_count = 2
    /\ Len(Completed) = 1 /\ Completed[1].type = RESPONSE_VALUE
    /\ Len(fed) >= 3
    /\ popped = <<>> /\ buf.responses = <<>>
    /\ buf.partial_responses = <<>>

\* C20 as claimed: whatever the buffer holds (too few bytes, a declared
\* size larger than the data, smaller than the eight bytes of id and type,
\* or negative, an unknown type), decode either returns a message and the
\* remainder or fails with RCONMessageError, and feed does not fail.
C20_OnlyMessageError ==
    /\ codec.pc = "decoded" => codec.result.status \in {"ok", "RCONMessageError"}
    /\ codec.pc = "fed" => codec.result.status = "none"

\* C21: a value that is supplied is encoded as given, whether or not the
\* field is optional; with no value, a required field fails with ValueError
\* and the wrapped encode is not run, and an optional field is encoded with
\* its stored default.
C21_UseDefault ==
    (msg.pc = "done" /\ msg.op = "field_encode")
        => IF msg.value # NoValue
           THEN /\ msg.result.exc = "none" /\ msg.result.called
                /\ unpack_field(msg.result.bytes) = msg.value[1]
           ELSE IF msg.field.optional
           THEN /\ msg.result.exc = "none" /\ msg.result.called
                /\ unpack_field(msg.result.bytes) = msg.field.default_value
           ELSE /\ msg.result.exc = "ValueError" /\ ~msg.result.called
                /\ msg.result.bytes = <<>>

\* A required field with a default of 5 was encoded without a value.
C21_Witness ==
    /\ msg.pc = "done" /\ msg.op = "field_encode"
    /\ ~msg.field.optional /\ msg.field.default_value = 5
    /\ msg.value = NoValue
    /\ msg.result.exc = "ValueError"

\* The value Message.encode has for a field: the override, else the stored
\* value, else the default of an optional field, else none.
Resolved(i) ==
    LET f == msg.fields[i]
    IN  IF msg.overrides[f.name] # NoValue THEN msg.overrides[f.name]
        ELSE IF msg.stored[f.name] # NoValue THEN msg.stored[f.name]
        ELSE IF f.optional THEN <<f.default_value>>
        ELSE NoValue

\* C22: Message.encode on a schema of two byte fields emits the byte of the
\* first field and then the byte of the last, each value taken from the
\* override or the stored state and an omitted optional field taken as its
\* default; it fails with ValueError if a required field has no value.
C22_MessageEncode ==
    (msg.pc = "done" /\ msg.op = "message_encode")
        => IF Resolved(1) = NoValue \/ Resolved(2) = NoValue
           THEN msg.result.exc = "ValueError"
           ELSE /\ msg.result.exc = "none"
                /\ msg.result.bytes = <<Resolved(1)[1], Resolved(2)[1]>>

\* The first field holds 5, the last is optional with default 10 and was
\* given no value: the encoding is 05 0A.
C22_Witness ==
    /\ msg.pc = "done" /\ msg.op = "message_encode"
    /\ msg.stored = [first_field |-> <<5>>, last_field |-> NoValue]
    /\ msg.overrides = [first_field |-> NoValue, last_field |-> NoValue]
    /\ msg.fields[2].optional
    /\ msg.result = [exc |-> "none", bytes |-> <<5, 10>>]

\* The whole elements a buffer holds, and the values of the first n.
Whole == Len(msg.buffer) \div msg.array.element.width
Elements(n) ==
    [i \in 1..n |->
        unpack_field(SubSeq(msg.buffer, (i - 1) * msg.array.element.width + 1,
                            i * msg.array.element.width))]

\* C23: an array with count at_least(N), over a buffer of k whole elements
\* and perhaps a partial one, returns the k elements and the bytes of the
\* partial element as the remainder if k >= N, and fails with
\* BrokenMessageError if k < N.
C23_AtLeast ==
    (msg.pc = "done" /\ msg.op = "array_decode"
       /\ msg.array.count.count = Unbounded)
        => IF Whole >= msg.array.count.minimum
           THEN /\ msg.result.exc = "none"
                /\ msg.result.values = Elements(Whole)
                /\ msg.result.remainder
                     = SliceFrom(msg.buffer, Whole * msg.array.element.width)
           ELSE msg.result.exc = "BrokenMessageError"

\* at_least(5) over five two-byte elements and a trailing byte.
C23_Witness ==
    /\ msg.pc = "done" /\ msg.op = "array_decode"
    /\ msg.array.count = at_least(5) /\ msg.array.element.width = 2
    /\ Len(msg.buffer) = 11
    /\ Len(msg.result.values) = 5 /\ Len(msg.result.remainder) = 1

\* C24: an array with a constant count N and minimum m, over a buffer of k
\* whole elements and perhaps a partial one, returns the first min(k, N)
\* elements and the bytes after them as the remainder if k >= m, and fails
\* with BrokenMessageError if k < m.
C24_Constant ==
    (msg.pc = "done" /\ msg.op = "array_decode"
       /\ msg.array.count.count # Unbounded)
        => IF Whole >= msg.array.count.minimum
           THEN /\ msg.result.exc = "none"
                /\ msg.result.values = Elements(Min(Whole, msg.array.count.count))
                /\ msg.result.remainder
                     = SliceFrom(msg.buffer,
                                 Min(Whole, msg.array.count.count)
                                    * msg.array.element.width)
           ELSE msg.result.exc = "BrokenMessageError"

\* A count of 3 with minimum 2 over two two-byte elements and a trailing
\* byte: two elements, and the byte handed back.
C24_Witness ==
    /\ msg.pc = "done" /\ msg.op = "array_decode"
    /\ msg.array.count = constant(3, 2) /\ msg.array.element.width = 2
    /\ Len(msg.buffer) = 5
    /\ Len(msg.result.values) = 2 /\ msg.result.remainder = <<85>>

\* The step is an execute that its decorators let through.
Entered == CallStep("execute") /\ connected(rcon) /\ rcon.authenticated

\* The two requests of an execute.
Requests(command) ==
    <<RCONMessage(0, EXECCOMMAND, command), RCONMessage(0, RESPONSE_VALUE, <<>>)>>

\* C25 as claimed: every execute that is let through sends exactly two
\* requests, the EXECCOMMAND (type 2, id 0, the command as body) and then
\* the empty RESPONSE_VALUE (type 0, id 0), for block true and false alike.
C25_AlwaysTwoRequests ==
    [][Entered => outbound' = outbound \o Requests(last'.command)]_vars

\* C25 as amended: every execute that is let through and whose sends do
\* not fail sends exactly these two requests, in this order, before it
\* reads or waits, and sends nothing while it waits; if the first send
\* fails nothing has been sent, if the second fails only the EXECCOMMAND
\* has, and in both cases execute ends with the error without reading.
C25_Requests ==
    [][/\ Entered =>
            IF last'.result = "socket.error"
            THEN /\ outbound' \in {outbound,
                                    outbound \o SliceTo(Requests(last'.command), 1)}
                 /\ rcon' = rcon /\ inbound' = inbound /\ pc' = "idle"
            ELSE /\ outbound' = outbound \o Requests(last'.command)
                 /\ last'.block
                       => (pc' = "execute" /\ rcon' = rcon /\ inbound' = inbound)
       /\ pc = "execute" => outbound' = outbound]_vars

\* A second blocking execute has sent its two requests and waits.
C25_Witness ==
    /\ pc = "execute" /\ last.result = "running"
    /\ Len(outbound) = 5
    /\ SliceFrom(outbound, 3) = Requests(last.command)
    /\ last.command = Command(2)

\* How many of the frames are wholly within the first n bytes of their
\* encodings, and how many frames feed has been given wholly.
RECURSIVE WholeFrames(_, _)
WholeFrames(frames, n) ==
    IF frames = <<>> \/ Len(encode(Head(frames))) > n THEN 0
    ELSE 1 + WholeFrames(Tail(frames), n - Len(encode(Head(frames))))

ArrivedCount(frames, unfed) ==
    WholeFrames(frames, Len(encode_all(frames)) - Len(unfed))
Arrived == SubSeq(fed, 1, ArrivedCount(fed, stream))

\* A new buffer with the discards armed that were armed before the feeds.
Armed == [ResponseBuffer EXCEPT !.discard_count = discards]

\* C26: however the stream of whole frames is split into feed() calls, the
\* buffer is as if the bytes had been fed in one call: the same responses
\* are ready, as many were dropped, the same parts are pending; the bytes of
\* an incomplete trailing frame are the backlog and change nothing else.
C26_ChunkIndependent ==
    LET frames == feed(Armed, encode_all(Arrived)).self
    IN  /\ buf = feed(Armed, Consumed).self
        /\ frames.buffer = <<>>
        /\ buf = [frames EXCEPT
                    !.buffer = SliceFrom(Consumed, Len(encode_all(Arrived)))]
        /\ dropped = discards - buf.discard_count

\* Three frames have made up one response, and the feed of the fourth ended
\* inside its size field.
C26_Witness ==
    /\ Len(fed) = 4 /\ Len(Arrived) = 3
    /\ Len(buf.buffer) = 2
    /\ Len(buf.responses) = 1 /\ buf.partial_responses = <<>>

IsValue(m) == m.type = RESPONSE_VALUE
IsOther(m) == m.type # RESPONSE_VALUE

\* C27: a frame of another type than RESPONSE_VALUE that is decoded while
\* parts are pending is enqueued, or dropped against an armed discard, at
\* once and as it is, and the pending parts stay as they are; the
\* RESPONSE_VALUE frames are reassembled as if the other frames had not
\* been among them.
C27_OutOfBand ==
    /\ [][(/\ ArrivedCount(fed', stream') = ArrivedCount(fed, stream) + 1
            /\ IsOther(fed'[ArrivedCount(fed', stream')])
            /\ buf.partial_responses # <<>>)
          => /\ buf'.partial_responses = buf.partial_responses
             /\ IF buf.discard_count > 0
                THEN /\ buf'.discard_count = buf.discard_count - 1
                     /\ buf'.responses = buf.responses
                ELSE /\ buf'.discard_count = 0
                     /\ buf'.responses
                          = Append(buf.responses,
                                   fed'[ArrivedCount(fed', stream')])]_vars
    /\ [](discards = 0
            => LET values == feed(ResponseBuffer,
                                  encode_all(SelectSeq(Arrived, IsValue))).self
               IN  /\ SelectSeq(buf.responses, IsValue) = values.responses
                   /\ buf.partial_responses = values.partial_responses
                   /\ SelectSeq(buf.responses, IsOther)
                        = SelectSeq(Arrived, IsOther))

\* An AUTH_RESPONSE frame arrived between the first part of a run and the
\* terminating pair: it is ready first, and the run was merged after it.
C27_Witness ==
    /\ Len(fed) = 4 /\ stream = <<>> /\ discards = 0
    /\ IsValue(fed[1]) /\ fed[1].body # <<>> /\ IsOther(fed[2])
    /\ buf.responses = <<fed[2], RCONMessage(fed[1].id, RESPONSE_VALUE, fed[1].body)>>
    /\ buf.partial_responses = <<>>

\* No frame with an empty body is followed at once by one with the body
\* 00 01 00 00.
NoPair(frames) ==
    \A i \in 1..(Len(frames) - 1) :
        ~(frames[i].body = <<>> /\ frames[i + 1].body = <<0, 1, 0, 0>>)

\* C28: while the frames fed are RESPONSE_VALUE frames among which no empty
\* one is followed at once by the body 00 01 00 00, nothing is ready, pop
\* fails and has returned nothing, no armed discard has been used up, and
\* all the frames are pending parts.
C28_NotExposed ==
    ((\A i \in DOMAIN Arrived : IsValue(Arrived[i])) /\ NoPair(Arrived))
        => /\ buf.responses = <<>>
           /\ pop(buf).exc = "RCONError" /\ popped = <<>>
           /\ buf.discard_count = discards /\ dropped = 0
           /\ buf.partial_responses = Arrived

\* Four parts are pending, the body 00 01 00 00 and an empty body among
\* them in the other order, and two discards are armed.
C28_Witness ==
    /\ Len(Arrived) = 4 /\ NoPair(Arrived)
    /\ Arrived[1].body = <<0, 1, 0, 0>> /\ Arrived[2].body = <<>>
    /\ discards = 2 /\ buf.discard_count = 2
    /\ buf.partial_responses = Arrived /\ buf.responses = <<>>

\* C29: over any interleaving of feed, pop, discard and clear the discard
\* counter is never negative, and it is above zero only while no response
\* is ready.
C29_CounterOrQueue ==
    /\ buf.discard_count >= 0
    /\ buf.discard_count > 0 => buf.responses = <<>>

\* Two responses were ready when discard was called: the first was
\* dropped, the second is still ready, and no discard is armed.
C29_Witness ==
    /\ calls = <<"feed", "discard">>
    /\ Len(fed) = 2 /\ stream = <<>>
    /\ buf.responses = <<fed[2]>> /\ buf.discard_count = 0

\* C30: in every state reached by feed, pop and discard from a new buffer,
\* the completed responses are as many as those pop returned, those
\* dropped and those ready together, and the calls of discard as many as
\* the responses dropped and the discards still armed together.
C30_Conservation ==
    /\ Len(Completed) = Len(popped) + dropped + Len(buf.responses)
    /\ discards = dropped + buf.discard_count
    /\ dropped >= 0

\* Of four completed responses one was returned, two were dropped and one
\* is ready.
C30_Witness ==
    /\ Len(Completed) = 4
    /\ Len(popped) = 1 /\ dropped = 2 /\ Len(buf.responses) = 1
    /\ discards = 2

\* C31 as claimed: in every state the status flags are those of one of
\* Disconnected, Connected, Authenticated and Closed: authenticated is true
\* only while connected is true and closed is false, and connected and
\* closed are never both true.
C31_FlagsConsistent ==
    /\ rcon.authenticated => (connected(rcon) /\ ~rcon.closed)
    /\ ~(connected(rcon) /\ rcon.closed)

=============================================================================
